---- MODULE Spec2Model ----
(***************************************************************************)
(* Text-to-SQL workflow: RAG retrieval, SQL generation, validation, the    *)
(* bounded debug loop and execution, as wired by flow.py and driven by     *)
(* main.run_text_to_sql_query.                                             *)
(*                                                                         *)
(* An SQL string is a sequence of tokens (words and punctuation); white    *)
(* space is the token boundary.  The LLM, Milvus and MySQL collaborators   *)
(* are nondeterministic: every call picks one of its possible outcomes.    *)
(***************************************************************************)
EXTENDS Integers, Sequences, FiniteSets, TLC

VARIABLES
    pc,              \* position of the driver: idle, a node of the flow, flow_done, raised, returned
    use_debug,       \* argument of run_text_to_sql_query
    user_query,      \* argument of run_text_to_sql_query, shared["user_query"]
    database_config, \* argument of run_text_to_sql_query, shared["database_config"]
    catalog,         \* the tables of the live database (outside the program)
    collection,      \* the rows handed to the Milvus collection, in order
    rag_context,     \* shared["rag_context"]
    sql_generation,  \* shared["sql_generation"]
    debug_history,   \* shared["debug_history"]
    result,          \* value returned by run_text_to_sql_query
    runs,            \* number of calls of run_text_to_sql_query so far
    trace,           \* per run: the nodes that ran, in order
    last_action,     \* per run: the action string the last node's post returned
    last_valid,      \* per run: is_valid of the last validation result
    executed_sql,    \* per run: the SQL strings handed to execute_sql, in order
    last_outcome,    \* per run: what the collaborators of the node that ran last did
    probe            \* one direct call of a stage's exec: its inputs and its result

vars == <<pc, use_debug, user_query, database_config, catalog, collection, rag_context,
          sql_generation, debug_history, result, runs, trace, last_action, last_valid,
          executed_sql, last_outcome, probe>>

(***************************************************************************)
(* Bounds of the model.                                                    *)
(***************************************************************************)
MaxRuns == 2
MaxStages == 15
MaxCalls == 3
MaxBatch == 2

(***************************************************************************)
(* Program constants.                                                      *)
(***************************************************************************)
max_debug_iterations_Four == 3 + 1
max_debug_iterations == 3
ExecutionDebugLimit == 3
MaxSuggestions == 3
DefaultSimilarity == 5   \* 0.5, in tenths

(***************************************************************************)
(* Tokens and strings.                                                     *)
(***************************************************************************)
Punctuation == {",", ".", "*", "(", ")", "FENCE", "FENCE_SQL"}

IsWord(tok) == tok \notin Punctuation

Upper(tok) ==
    CASE tok = "select" -> "SELECT"
      [] tok = "from" -> "FROM"
      [] tok = "join" -> "JOIN"
      [] tok = "as" -> "AS"
      [] tok = "As" -> "AS"
      [] tok = "where" -> "WHERE"
      [] tok = "users" -> "USERS"
      [] tok = "usr" -> "USR"
      [] tok = "id" -> "ID"
      [] tok = "name" -> "NAME"
      [] tok = "nam" -> "NAM"
      [] tok = "update" -> "UPDATE"
      [] tok = "into" -> "INTO"
      [] OTHER -> tok

\* the characters of a token; a token not listed is a single character
Chars(tok) ==
    CASE tok = "SELECT" -> <<"S", "E", "L", "E", "C", "T">>
      [] tok = "FROM" -> <<"F", "R", "O", "M">>
      [] tok = "JOIN" -> <<"J", "O", "I", "N">>
      [] tok = "AS" -> <<"A", "S">>
      [] tok = "WHERE" -> <<"W", "H", "E", "R", "E">>
      [] tok = "UPDATE" -> <<"U", "P", "D", "A", "T", "E">>
      [] tok = "DELETE" -> <<"D", "E", "L", "E", "T", "E">>
      [] tok = "INSERT" -> <<"I", "N", "S", "E", "R", "T">>
      [] tok = "INTO" -> <<"I", "N", "T", "O">>
      [] tok = "SET" -> <<"S", "E", "T">>
      [] tok = "ON" -> <<"O", "N">>
      [] tok = "LIMIT" -> <<"L", "I", "M", "I", "T">>
      [] tok = "ORDER" -> <<"O", "R", "D", "E", "R">>
      [] tok = "BY" -> <<"B", "Y">>
      [] tok = "UNION" -> <<"U", "N", "I", "O", "N">>
      [] tok = "select" -> <<"s", "e", "l", "e", "c", "t">>
      [] tok = "from" -> <<"f", "r", "o", "m">>
      [] tok = "join" -> <<"j", "o", "i", "n">>
      [] tok = "update" -> <<"u", "p", "d", "a", "t", "e">>
      [] tok = "into" -> <<"i", "n", "t", "o">>
      [] tok = "as" -> <<"a", "s">>
      [] tok = "As" -> <<"A", "s">>
      [] tok = "where" -> <<"w", "h", "e", "r", "e">>
      [] tok = "on" -> <<"o", "n">>
      [] tok = "limit" -> <<"l", "i", "m", "i", "t">>
      [] tok = "by" -> <<"b", "y">>
      [] tok = "users" -> <<"u", "s", "e", "r", "s">>
      [] tok = "Users" -> <<"U", "s", "e", "r", "s">>
      [] tok = "usr" -> <<"u", "s", "r">>
      [] tok = "orders" -> <<"o", "r", "d", "e", "r", "s">>
      [] tok = "ord" -> <<"o", "r", "d">>
      [] tok = "order" -> <<"o", "r", "d", "e", "r">>
      [] tok = "order_items" -> <<"o", "r", "d", "e", "r", "_", "i", "t", "e", "m", "s">>
      [] tok = "order_log" -> <<"o", "r", "d", "e", "r", "_", "l", "o", "g">>
      [] tok = "locations" -> <<"l", "o", "c", "a", "t", "i", "o", "n", "s">>
      [] tok = "custmers" -> <<"c", "u", "s", "t", "m", "e", "r", "s">>
      [] tok = "customers" -> <<"c", "u", "s", "t", "o", "m", "e", "r", "s">>
      [] tok = "id" -> <<"i", "d">>
      [] tok = "name" -> <<"n", "a", "m", "e">>
      [] tok = "nam" -> <<"n", "a", "m">>
      [] tok = "email" -> <<"e", "m", "a", "i", "l">>
      [] tok = "user_name" -> <<"u", "s", "e", "r", "_", "n", "a", "m", "e">>
      [] tok = "full_name" -> <<"f", "u", "l", "l", "_", "n", "a", "m", "e">>
      [] tok = "nick_name" -> <<"n", "i", "c", "k", "_", "n", "a", "m", "e">>
      [] OTHER -> <<tok>>

LowerChar(c) ==
    CASE c = "A" -> "a"
      [] c = "B" -> "b"
      [] c = "C" -> "c"
      [] c = "D" -> "d"
      [] c = "E" -> "e"
      [] c = "F" -> "f"
      [] c = "G" -> "g"
      [] c = "H" -> "h"
      [] c = "I" -> "i"
      [] c = "J" -> "j"
      [] c = "K" -> "k"
      [] c = "L" -> "l"
      [] c = "M" -> "m"
      [] c = "N" -> "n"
      [] c = "O" -> "o"
      [] c = "P" -> "p"
      [] c = "Q" -> "q"
      [] c = "R" -> "r"
      [] c = "S" -> "s"
      [] c = "T" -> "t"
      [] c = "U" -> "u"
      [] c = "V" -> "v"
      [] c = "W" -> "w"
      [] c = "X" -> "x"
      [] c = "Y" -> "y"
      [] c = "Z" -> "z"
      [] OTHER -> c

UpperChar(c) ==
    CASE c = "a" -> "A"
      [] c = "b" -> "B"
      [] c = "c" -> "C"
      [] c = "d" -> "D"
      [] c = "e" -> "E"
      [] c = "f" -> "F"
      [] c = "g" -> "G"
      [] c = "h" -> "H"
      [] c = "i" -> "I"
      [] c = "j" -> "J"
      [] c = "k" -> "K"
      [] c = "l" -> "L"
      [] c = "m" -> "M"
      [] c = "n" -> "N"
      [] c = "o" -> "O"
      [] c = "p" -> "P"
      [] c = "q" -> "Q"
      [] c = "r" -> "R"
      [] c = "s" -> "S"
      [] c = "t" -> "T"
      [] c = "u" -> "U"
      [] c = "v" -> "V"
      [] c = "w" -> "W"
      [] c = "x" -> "X"
      [] c = "y" -> "Y"
      [] c = "z" -> "Z"
      [] OTHER -> c

\* str.lower(), as the characters of the lowered string
Lower(tok) == [k \in DOMAIN Chars(tok) |-> LowerChar(Chars(tok)[k])]

\* variant: a fuzzy match, a is b with one stretch of characters left out
IsSubstring_OneGap(a, b) ==
    \E i \in 0..Len(b) : \E j \in i..Len(b) :
        a = SubSeq(b, 1, i) \o SubSeq(b, j + 1, Len(b))

\* a in b, on the characters of two strings
IsSubstring(a, b) ==
    \E i \in 0..(Len(b) - Len(a)) : SubSeq(b, i + 1, i + Len(a)) = a

\* FENCE_SQL and FENCE stand for the markdown fence openers/closers.
\* the markdown clean-up: a leading sql fence (token FENCE_SQL) and a trailing
\* fence (token FENCE) are cut off; strip() is the token boundary
CleanSql(raw) ==
    LET s1 == IF Len(raw) > 0 /\ Head(raw) = "FENCE_SQL" THEN Tail(raw) ELSE raw
        s2 == IF Len(s1) > 0 /\ s1[Len(s1)] = "FENCE" THEN SubSeq(s1, 1, Len(s1) - 1) ELSE s1
    IN s2

(***************************************************************************)
(* Messages.  A message keeps the parts its f-string is built from.        *)
(***************************************************************************)
Msg(kind, table, column, names) ==
    [kind |-> kind, table |-> table, column |-> column, names |-> names]

\* "; ".join(...) and chr(10).join(...): the joined string is the messages in order
JoinMessages(msgs) == [joined |-> msgs]

(***************************************************************************)
(* utils/sql_validator.py                                                  *)
(***************************************************************************)
\* the dict schema_info as a sequence of table_info records, keys in insertion order
SchemaTables(schema_info) == {schema_info[i].table_name : i \in DOMAIN schema_info}

TableColumns(schema_info, table_name) ==
    LET i == CHOOSE k \in DOMAIN schema_info : schema_info[k].table_name = table_name
    IN {schema_info[i].columns[c] : c \in DOMAIN schema_info[i].columns}

\* iteration order of a Python set of strings: one fixed order per set
RECURSIVE SetToSeq(_)
SetToSeq(S) ==
    IF S = {} THEN <<>>
    ELSE LET x == CHOOSE y \in S : TRUE IN <<x>> \o SetToSeq(S \ {x})

\* MySQLConnector.validate_sql_syntax reports a failure in its return value
\* (False, message) and raises only when there is no engine; a connector made
\* by create_mysql_connector always has one.
validate_sql_syntax(sql, compiles) ==
    IF compiles THEN [ok |-> TRUE, raised |-> FALSE] ELSE [ok |-> FALSE, raised |-> FALSE]

\* variant: the verdict handed back by validate_sql_syntax is looked at
ValidateSyntax_HonoursVerdict(sql, compiles) ==
    IF validate_sql_syntax(sql, compiles).raised \/ ~validate_sql_syntax(sql, compiles).ok
    THEN [is_valid |-> FALSE, errors |-> <<Msg("syntax", "", <<>>, <<>>)>>]
    ELSE [is_valid |-> TRUE, errors |-> <<>>]

\* _validate_syntax looks only at whether the call raised
ValidateSyntax(sql, compiles) ==
    IF validate_sql_syntax(sql, compiles).raised
    THEN [is_valid |-> FALSE, errors |-> <<Msg("syntax", "", <<>>, <<>>)>>]
    ELSE [is_valid |-> TRUE, errors |-> <<>>]

\* the five patterns KEYWORD\s+(\w+), matched with re.IGNORECASE
ExtractTableNames(sql) ==
    {sql[i + 1] : i \in {k \in 1..(Len(sql) - 1) :
        /\ IsWord(sql[k + 1])
        /\ \/ Upper(sql[k]) \in {"FROM", "JOIN", "UPDATE"}
           \/ Upper(sql[k]) = "INTO" /\ k > 1 /\ Upper(sql[k - 1]) = "INSERT"}}

FirstN(seq, n) == IF Len(seq) <= n THEN seq ELSE SubSeq(seq, 1, n)

\* variant: the list of candidates handed back whole
FindSimilar_NoCap(name, available) ==
    SetToSeq({a \in available :
        IsSubstring(Lower(name), Lower(a)) \/ IsSubstring(Lower(a), Lower(name))})

FindSimilar(name, available) ==
    FirstN(SetToSeq({a \in available :
               IsSubstring(Lower(name), Lower(a)) \/ IsSubstring(Lower(a), Lower(name))}),
           MaxSuggestions)

RECURSIVE TableErrors(_, _)
TableErrors(names, available) ==
    IF names = <<>> THEN <<>>
    ELSE LET t == Head(names)
             sugg == FindSimilar(t, available)
             here == IF t \in available THEN <<>>
                     ELSE <<Msg("no_table", t, <<>>, <<>>)>>
                          \o (IF sugg # <<>> THEN <<Msg("table_candidates", "", <<>>, sugg)>> ELSE <<>>)
         IN here \o TableErrors(Tail(names), available)

ValidateTables(schema_info, sql) ==
    IF schema_info = <<>> THEN [is_valid |-> TRUE, errors |-> <<>>]
    ELSE LET errs == TableErrors(SetToSeq(ExtractTableNames(sql)), SchemaTables(schema_info))
         IN [is_valid |-> errs = <<>>, errors |-> errs]

\* str.split(','): the segments between the comma tokens
RECURSIVE SplitComma(_)
SplitComma(toks) ==
    IF \A k \in DOMAIN toks : toks[k] # "," THEN <<toks>>
    ELSE LET c == CHOOSE k \in DOMAIN toks : toks[k] = "," /\ \A m \in 1..(k - 1) : toks[m] # ","
         IN <<SubSeq(toks, 1, c - 1)>> \o SplitComma(SubSeq(toks, c + 1, Len(toks)))

\* if ' AS ' in col.upper(): col = col.split(' AS ')[0].strip()
\* the test ignores case, the split does not
StripAlias(col) ==
    LET inner == 2..(Len(col) - 1)
    IN IF \E k \in inner : Upper(col[k]) = "AS"
       THEN IF \E k \in inner : col[k] = "AS"
            THEN LET a == CHOOSE k \in inner : col[k] = "AS" /\ \A m \in 2..(k - 1) : col[m] # "AS"
                 IN SubSeq(col, 1, a - 1)
            ELSE col
       ELSE col

\* if '.' in col: col = col.split('.')[-1].strip()
StripQualifier(col) ==
    IF \E k \in DOMAIN col : col[k] = "."
    THEN LET d == CHOOSE k \in DOMAIN col : col[k] = "." /\ \A m \in (k + 1)..Len(col) : col[m] # "."
         IN SubSeq(col, d + 1, Len(col))
    ELSE col

ColumnsOf(columns_str) ==
    LET segs == SplitComma(columns_str)
    IN [k \in DOMAIN segs |-> StripQualifier(StripAlias(segs[k]))]

\* column_mapping[table_name] = columns, on a dict kept in insertion order
PutMapping(mapping, table_name, columns) ==
    IF \E k \in DOMAIN mapping : mapping[k].table = table_name
    THEN [k \in DOMAIN mapping |->
            IF mapping[k].table = table_name
            THEN [table |-> table_name, columns |-> columns] ELSE mapping[k]]
    ELSE Append(mapping, [table |-> table_name, columns |-> columns])

\* a match of SELECT\s+(.*?)\s+FROM\s+(\w+) that starts at token i ends at the
\* nearest FROM followed by a word
FromOf(sql, i) ==
    {j \in (i + 2)..(Len(sql) - 1) : Upper(sql[j]) = "FROM" /\ IsWord(sql[j + 1])}

Min(S) == CHOOSE x \in S : \A y \in S : x <= y

\* re.findall: leftmost matches, not overlapping
RECURSIVE SelectMatches(_, _, _)
SelectMatches(sql, start, mapping) ==
    LET starts == {i \in start..Len(sql) : Upper(sql[i]) = "SELECT" /\ FromOf(sql, i) # {}}
    IN IF starts = {} THEN mapping
       ELSE LET i == Min(starts)
                j == Min(FromOf(sql, i))
            IN SelectMatches(sql, j + 2,
                   PutMapping(mapping, sql[j + 1], ColumnsOf(SubSeq(sql, i + 1, j - 1))))

ExtractColumnNames(sql) == SelectMatches(sql, 1, <<>>)

\* variant: the list of candidates handed back whole
FindSimilarColumns_NoCap(column, available) ==
    SetToSeq({a \in available :
        \/ Len(column) = 0
        \/ Len(column) = 1 /\ IsSubstring(Lower(column[1]), Lower(a))
        \/ \E k \in DOMAIN column : IsSubstring(Lower(a), Lower(column[k]))})

\* _find_similar_columns on a column text of any number of tokens: the empty
\* text is a substring of every name, a text with spaces is inside no name
FindSimilarColumns(column, available) ==
    FirstN(SetToSeq({a \in available :
               \/ Len(column) = 0
               \/ Len(column) = 1 /\ IsSubstring(Lower(column[1]), Lower(a))
               \/ \E k \in DOMAIN column : IsSubstring(Lower(a), Lower(column[k]))}),
           MaxSuggestions)

RECURSIVE ColumnErrors(_, _, _)
ColumnErrors(table_name, columns, available) ==
    IF columns = <<>> THEN <<>>
    ELSE LET c == Head(columns)
             sugg == FindSimilarColumns(c, available)
             here == IF Len(c) = 1 /\ c[1] \in available THEN <<>>
                     ELSE <<Msg("no_column", table_name, c, <<>>)>>
                          \o (IF sugg # <<>> THEN <<Msg("column_candidates", "", <<>>, sugg)>> ELSE <<>>)
         IN here \o ColumnErrors(table_name, Tail(columns), available)

RECURSIVE MappingErrors(_, _)
MappingErrors(schema_info, mapping) ==
    IF mapping = <<>> THEN <<>>
    ELSE LET m == Head(mapping)
             here == IF m.table \in SchemaTables(schema_info)
                     THEN ColumnErrors(m.table, m.columns, TableColumns(schema_info, m.table))
                     ELSE <<>>
         IN here \o MappingErrors(schema_info, Tail(mapping))

ValidateColumns(schema_info, sql) ==
    IF schema_info = <<>> THEN [is_valid |-> TRUE, errors |-> <<>>]
    ELSE LET errs == MappingErrors(schema_info, ExtractColumnNames(sql))
         IN [is_valid |-> errs = <<>>, errors |-> errs]

\* sql.upper(): the characters of the statement, one blank between two tokens
RECURSIVE SqlUpper(_)
SqlUpper(sql) ==
    IF sql = <<>> THEN <<>>
    ELSE [k \in DOMAIN Chars(Head(sql)) |-> UpperChar(Chars(Head(sql))[k])]
         \o (IF Len(sql) > 1 THEN <<" ">> ELSE <<>>)
         \o SqlUpper(Tail(sql))

\* variant: the keyword looked for as a whole word of the statement
HasToken_WholeWord(sql, kw) == \E k \in DOMAIN sql : Upper(sql[k]) = kw

\* "KEYWORD" in sql_upper
HasToken(sql, kw) == IsSubstring(Chars(kw), SqlUpper(sql))

\* "ORDER BY" in sql_upper
HasOrderBy(sql) == IsSubstring(Chars("ORDER") \o <<" ">> \o Chars("BY"), SqlUpper(sql))

ValidateLogic(sql) ==
    [warnings |->
        (IF HasToken(sql, "SELECT") /\ ~HasToken(sql, "WHERE") THEN <<"no_where">> ELSE <<>>)
        \o (IF HasToken(sql, "JOIN") /\ ~HasToken(sql, "ON") THEN <<"join_without_on">> ELSE <<>>),
     suggestions |->
        (IF HasToken(sql, "SELECT") /\ ~HasToken(sql, "LIMIT") THEN <<"add_limit">> ELSE <<>>)
        \o (IF HasToken(sql, "SELECT") /\ ~HasOrderBy(sql)
            THEN <<"add_order_by">> ELSE <<>>)]

\* variant: a warning counts against is_valid
validate_sql_StrictWarnings(schema_info, sql, compiles) ==
    LET syntax_result == ValidateSyntax(sql, compiles)
        table_result == ValidateTables(schema_info, sql)
        column_result == ValidateColumns(schema_info, sql)
        logic_result == ValidateLogic(sql)
    IN [is_valid |-> /\ syntax_result.is_valid /\ table_result.is_valid
                     /\ column_result.is_valid /\ logic_result.warnings = <<>>,
        errors |-> syntax_result.errors \o table_result.errors \o column_result.errors,
        warnings |-> logic_result.warnings,
        suggestions |-> logic_result.suggestions]

validate_sql(schema_info, sql, compiles) ==
    LET syntax_result == ValidateSyntax(sql, compiles)
        table_result == ValidateTables(schema_info, sql)
        column_result == ValidateColumns(schema_info, sql)
        logic_result == ValidateLogic(sql)
    IN [is_valid |-> syntax_result.is_valid /\ table_result.is_valid /\ column_result.is_valid,
        errors |-> syntax_result.errors \o table_result.errors \o column_result.errors,
        warnings |-> logic_result.warnings,
        suggestions |-> logic_result.suggestions]

(***************************************************************************)
(* Collaborators: the values they can hand back.                           *)
(***************************************************************************)
Catalogs ==
    { <<[table_name |-> "users", columns |-> <<"id", "name">>],
        [table_name |-> "orders", columns |-> <<"id">>]>>,
      <<>> }

\* raw LLM answers, before the markdown clean-up
LLMResponses ==
    { <<"FENCE_SQL", "SELECT", "id", "FROM", "users", "FENCE">>,
      <<"SELECT", "nam", "FROM", "users">>,
      <<>> }

LLMFailure == <<"LLM_RAISES">>

Queries == {"q1", "q2"}

DatabaseConfigs == {"local", "remote"}

DBOutcomes == {"connect_fails", "call_fails", "ok"}

\* create_milvus_rag raises, the search fails inside search_similar_tables,
\* the search finds nothing, or it finds hits
MilvusOutcomes == {"raises", "search_fails", "empty", "hits"}

Outcome(milvus, db, llm) == [milvus |-> milvus, db |-> db, llm |-> llm]

NoOutcome == Outcome("", "", "")

LLMOutcome(llm) == Outcome("", "", IF llm = LLMFailure THEN "failed" ELSE "ok")

NoProbe == [stage |-> "none"]

\* catalogs and statements for validate_sql called on its own
UnitCatalogs ==
    { <<[table_name |-> "customers", columns |-> <<"id", "name">>]>>,
      <<[table_name |-> "users", columns |-> <<"id", "name", "email">>],
        [table_name |-> "orders", columns |-> <<"id">>]>>,
      <<[table_name |-> "users",
         columns |-> <<"id", "name", "user_name", "full_name", "nick_name">>]>>,
      <<[table_name |-> "order", columns |-> <<"id">>],
        [table_name |-> "orders", columns |-> <<"id">>],
        [table_name |-> "order_items", columns |-> <<"id">>],
        [table_name |-> "order_log", columns |-> <<"id">>]>>,
      <<>> }

UnitNames ==
    {"users", "Users", "usr", "orders", "ord", "custmers", "customers", "locations"}

\* what can follow the table of a SELECT
UnitTails ==
    { <<"WHERE", "id">>, <<"where", "id">>, <<"LIMIT", "1">>, <<"limit", "1">>,
      <<"ORDER", "BY", "id">>, <<"order", "by", "id">>,
      <<"WHERE", "id", "ORDER", "BY", "id", "LIMIT", "1">>,
      <<"JOIN", "orders", "ON", "id">>, <<"join", "orders", "on", "id">> }

UnitColumns ==
    { <<"*">>, <<"id">>, <<"nam">>, <<"id", ",", "name">>, <<"id", ",", "nam">>,
      <<"name", "AS", "n">>, <<"name", "as", "n">>, <<"name", "As", "n">>,
      <<"users", ".", "name">>, <<"users", ".", "name", "AS", "n">> }

UnitSqls ==
    {<<s>> \o c \o <<f, t>> :
        s \in {"SELECT", "select"}, c \in UnitColumns, f \in {"FROM", "from"}, t \in UnitNames}
    \cup {<<u, t, "SET", "id">> : u \in {"UPDATE", "update"}, t \in UnitNames}
    \cup {<<"DELETE", f, t>> : f \in {"FROM", "from"}, t \in UnitNames}
    \cup {<<"INSERT", i, t>> : i \in {"INTO", "into"}, t \in UnitNames}
    \cup {<<"SELECT", "id", "FROM", t1, j, t2>> :
            t1 \in {"users", "usr"}, j \in {"JOIN", "join"}, t2 \in UnitNames}
    \cup {<<"SELECT", "id", "FROM", "users">> \o t : t \in UnitTails}
    \cup {<<"SELECT", c1, "FROM", "users", "UNION", "SELECT", c2, "FROM", t>> :
            c1 \in {"id", "nam"}, c2 \in {"id", "nam"}, t \in {"users", "orders"}}
    \cup {<<>>}

(***************************************************************************)
(* Shared store and result shapes.                                         *)
(***************************************************************************)
NoneValue == [none |-> TRUE, success |-> FALSE, sql |-> <<>>, error |-> "", result |-> ""]

EmptyRagContext ==
    [populated |-> FALSE, table_info |-> <<>>, similarity_scores |-> <<>>, descriptions |-> <<>>]

\* {}: no key is present; a read of an absent key gives the .get default
EmptySqlGeneration ==
    [keys |-> {}, initial_sql |-> <<>>, current_sql |-> <<>>,
     validation_errors |-> <<>>, execution_result |-> NoneValue]

NoResult ==
    [none |-> TRUE, user_query |-> "", success |-> FALSE, sql |-> <<>>, result |-> "", errors |-> <<>>,
     debug_history |-> <<>>]

LastNode == IF trace = <<>> THEN "" ELSE trace[Len(trace)]

Count(node) == Cardinality({i \in DOMAIN trace : trace[i] = node})

(***************************************************************************)
(* flow.py: the successors wired by create_debug_text_to_sql_flow and      *)
(* create_simple_text_to_sql_flow.  An action without a successor ends the *)
(* flow.                                                                   *)
(***************************************************************************)
\* variant: the forced execution wired back through validation
create_debug_text_to_sql_flow_Revalidate(node, action) ==
    CASE node = "rag" /\ action = "default" -> "generate"
      [] node = "generate" /\ action = "default" -> "validate"
      [] node = "validate" /\ action = "execute" -> "execute"
      [] node = "validate" /\ action = "debug" -> "debug"
      [] node = "debug" /\ action = "generate" -> "generate"
      [] node = "debug" /\ action = "execute" -> "validate"
      [] OTHER -> "flow_done"

\* variant: the forced execution wired to a node whose run never finishes
create_debug_text_to_sql_flow_Hang(node, action) ==
    CASE node = "rag" /\ action = "default" -> "generate"
      [] node = "generate" /\ action = "default" -> "validate"
      [] node = "validate" /\ action = "execute" -> "execute"
      [] node = "validate" /\ action = "debug" -> "debug"
      [] node = "debug" /\ action = "generate" -> "generate"
      [] node = "debug" /\ action = "execute" -> "hang"
      [] OTHER -> "flow_done"

\* variant: a failed execution wired back into the debug loop
create_debug_text_to_sql_flow_ExecuteRetry(node, action) ==
    CASE node = "rag" /\ action = "default" -> "generate"
      [] node = "generate" /\ action = "default" -> "validate"
      [] node = "validate" /\ action = "execute" -> "execute"
      [] node = "validate" /\ action = "debug" -> "debug"
      [] node = "debug" /\ action = "generate" -> "generate"
      [] node = "debug" /\ action = "execute" -> "execute"
      [] node = "execute" /\ action = "debug" -> "debug"
      [] OTHER -> "flow_done"

create_debug_text_to_sql_flow(node, action) ==
    CASE node = "rag" /\ action = "default" -> "generate"
      [] node = "generate" /\ action = "default" -> "validate"
      [] node = "validate" /\ action = "execute" -> "execute"
      [] node = "validate" /\ action = "debug" -> "debug"
      [] node = "debug" /\ action = "generate" -> "generate"
      [] node = "debug" /\ action = "execute" -> "execute"
      [] OTHER -> "flow_done"

create_simple_text_to_sql_flow(node, action) ==
    CASE node = "rag" /\ action = "default" -> "generate"
      [] node = "generate" /\ action = "default" -> "execute"
      [] OTHER -> "flow_done"

Successor(node, action) ==
    IF use_debug THEN create_debug_text_to_sql_flow(node, action)
    ELSE create_simple_text_to_sql_flow(node, action)

\* bookkeeping shared by every node: the node ran and handed back an action
Ran(node, action) ==
    /\ Len(trace) < MaxStages
    /\ trace' = Append(trace, node)
    /\ last_action' = action
    /\ pc' = Successor(node, action)

(***************************************************************************)
(* Init: nothing has been called yet.                                      *)
(***************************************************************************)
Init ==
    /\ pc = "idle"
    /\ use_debug = TRUE
    /\ user_query = ""
    /\ database_config = ""
    /\ catalog \in Catalogs
    /\ collection = <<>>
    /\ rag_context = EmptyRagContext
    /\ sql_generation = EmptySqlGeneration
    /\ debug_history = <<>>
    /\ result = NoResult
    /\ runs = 0
    /\ trace = <<>>
    /\ last_action = ""
    /\ last_valid = FALSE
    /\ executed_sql = <<>>
    /\ last_outcome = NoOutcome
    /\ probe = NoProbe

(***************************************************************************)
(* main.py, run_text_to_sql_query: build the shared store, pick the flow   *)
(* and start it at the retrieval node.                                     *)
(***************************************************************************)
\* variant: the shared store of the call before is handed on to the next call
RunQuery_KeepsHistory ==
    /\ pc \in {"idle", "returned"}
    /\ runs < MaxRuns
    /\ \E d \in BOOLEAN : use_debug' = d
    /\ \E q \in Queries : user_query' = q
    /\ \E c \in DatabaseConfigs : database_config' = c
    /\ rag_context' = EmptyRagContext
    /\ sql_generation' = EmptySqlGeneration
    /\ debug_history' = debug_history
    /\ result' = NoResult
    /\ runs' = runs + 1
    /\ trace' = <<>>
    /\ last_action' = ""
    /\ last_valid' = FALSE
    /\ executed_sql' = <<>>
    /\ last_outcome' = NoOutcome
    /\ pc' = "rag"
    /\ UNCHANGED <<catalog, collection, probe>>

RunQuery ==
    /\ pc \in {"idle", "returned"}
    /\ runs < MaxRuns
    /\ \E d \in BOOLEAN : use_debug' = d
    /\ \E q \in Queries : user_query' = q
    /\ \E c \in DatabaseConfigs : database_config' = c
    /\ rag_context' = EmptyRagContext
    /\ sql_generation' = EmptySqlGeneration
    /\ debug_history' = <<>>
    /\ result' = NoResult
    /\ runs' = runs + 1
    /\ trace' = <<>>
    /\ last_action' = ""
    /\ last_valid' = FALSE
    /\ executed_sql' = <<>>
    /\ last_outcome' = NoOutcome
    /\ pc' = "rag"
    /\ UNCHANGED <<catalog, collection, probe>>

(***************************************************************************)
(* nodes.py, RAGRetrievalNode.                                             *)
(***************************************************************************)
\* MilvusRAG.search_similar_tables: hits carry table_id and similarity_score only
SearchHit == [has_table_info |-> FALSE, table_id |-> 1, similarity_score |-> 9]

\* variant: the fallback entries carry the score default of a search hit, 0.0
CatalogItems_ZeroScore(schemas) ==
    [k \in DOMAIN schemas |->
        [has_table_info |-> TRUE, table_info |-> schemas[k],
         similarity_score |-> 0,
         description |-> schemas[k].table_name]]

\* the fallback list built from get_table_schema()
CatalogItems(schemas) ==
    [k \in DOMAIN schemas |->
        [has_table_info |-> TRUE, table_info |-> schemas[k],
         similarity_score |-> DefaultSimilarity,
         description |-> schemas[k].table_name]]

\* exec with its outcome: the client cannot be built, the search finds hits,
\* or the search comes back empty (nothing found, or a failure that
\* search_similar_tables turned into []) and the catalog is read from MySQL
RAGRetrievalExec(milvus, db) ==
    CASE milvus = "raises" -> <<>>
      [] milvus = "hits" -> <<SearchHit>>
      [] OTHER -> IF db = "ok" THEN CatalogItems(catalog) ELSE <<>>

\* MySQL is reached only after an empty search
RAGOutcome(milvus, db) ==
    Outcome(milvus, IF milvus \in {"search_fails", "empty"} THEN db ELSE "", "")

\* post reads item["table_info"] of every item
RAGRetrievalNode ==
    /\ pc = "rag"
    /\ \E milvus \in MilvusOutcomes, db \in DBOutcomes :
        LET exec_res == RAGRetrievalExec(milvus, db)
        IN /\ last_outcome' = RAGOutcome(milvus, db)
           /\ IF \E k \in DOMAIN exec_res : ~exec_res[k].has_table_info
              THEN /\ pc' = "raised"
                   /\ trace' = Append(trace, "rag")
                   /\ UNCHANGED <<rag_context, last_action>>
              ELSE /\ rag_context' =
                        [populated |-> TRUE,
                         table_info |-> [k \in DOMAIN exec_res |-> exec_res[k].table_info],
                         similarity_scores |->
                             [k \in DOMAIN exec_res |-> exec_res[k].similarity_score],
                         descriptions |-> [k \in DOMAIN exec_res |-> exec_res[k].description]]
                   /\ Ran("rag", "default")
    /\ UNCHANGED <<use_debug, user_query, database_config, catalog, collection,
                   sql_generation, debug_history, result, runs, last_valid, executed_sql,
                   probe>>

(***************************************************************************)
(* nodes.py, SQLGenerationNode.                                            *)
(***************************************************************************)
\* variant: the text of the failure handed on as the SQL
SQLGenerationExec_ErrorText(llm) == IF llm = LLMFailure THEN LLMFailure ELSE CleanSql(llm)

SQLGenerationExec(llm) == IF llm = LLMFailure THEN <<>> ELSE CleanSql(llm)

\* variant: the stage starts over with an empty rag_context
SQLGenerationNode_ResetsContext ==
    /\ pc = "generate"
    /\ \E llm \in LLMResponses \cup {LLMFailure} :
        LET exec_res == SQLGenerationExec(llm)
        IN /\ sql_generation' =
                [keys |-> sql_generation.keys \cup
                          {"initial_sql", "current_sql", "validation_errors", "execution_result"},
                 initial_sql |-> exec_res,
                 current_sql |-> exec_res,
                 validation_errors |-> <<>>,
                 execution_result |-> NoneValue]
           /\ last_outcome' = LLMOutcome(llm)
           /\ rag_context' = EmptyRagContext
    /\ Ran("generate", "default")
    /\ UNCHANGED <<use_debug, user_query, database_config, catalog, collection,
                   debug_history, result, runs, last_valid, executed_sql, probe>>

SQLGenerationNode ==
    /\ pc = "generate"
    /\ \E llm \in LLMResponses \cup {LLMFailure} :
        LET exec_res == SQLGenerationExec(llm)
        IN /\ sql_generation' =
                [keys |-> sql_generation.keys \cup
                          {"initial_sql", "current_sql", "validation_errors", "execution_result"},
                 initial_sql |-> exec_res,
                 current_sql |-> exec_res,
                 validation_errors |-> <<>>,
                 execution_result |-> NoneValue]
           /\ last_outcome' = LLMOutcome(llm)
    /\ Ran("generate", "default")
    /\ UNCHANGED <<use_debug, user_query, database_config, catalog, collection,
                   rag_context, debug_history, result, runs, last_valid, executed_sql,
                   probe>>

(***************************************************************************)
(* nodes.py, SQLValidationNode.                                            *)
(***************************************************************************)
\* every SQL text the run can hold, and every schema a validator can hold
SqlTexts == {CleanSql(r) : r \in LLMResponses} \cup {<<>>}

SchemaInfos == Catalogs \cup {<<>>}

\* validate_sql tabulated over the texts and schemas of the model
ValidationResults ==
    [schema_info \in SchemaInfos \cup UnitCatalogs |->
        [sql \in SqlTexts \cup UnitSqls |->
            [compiles \in BOOLEAN |-> validate_sql(schema_info, sql, compiles)]]]

\* _load_schema: the snapshot the validator holds, empty when get_table_schema
\* raised
LoadSchema(db) == IF db = "ok" THEN catalog ELSE <<>>

\* db: create_mysql_connector fails, or get_table_schema fails inside
\* _load_schema (the validator then holds an empty schema), or both work
SQLValidationExec(current_sql, db, compiles) ==
    CASE db = "connect_fails" ->
            [is_valid |-> FALSE, errors |-> <<Msg("validation_failed", "", <<>>, <<>>)>>,
             warnings |-> <<>>, suggestions |-> <<>>]
      [] OTHER -> ValidationResults[LoadSchema(db)][current_sql][compiles]

\* variant: the two actions swapped
SQLValidationPost_Swapped(validation_result) ==
    IF validation_result.is_valid THEN "debug" ELSE "execute"

SQLValidationPost(validation_result) ==
    IF validation_result.is_valid THEN "execute" ELSE "debug"

SQLValidationNode ==
    /\ pc = "validate"
    /\ \E db \in DBOutcomes, compiles \in BOOLEAN :
        LET validation_result == SQLValidationExec(sql_generation.current_sql, db, compiles)
        IN /\ sql_generation' =
                [sql_generation EXCEPT !.keys = @ \cup {"validation_errors"},
                                       !.validation_errors = validation_result.errors]
           /\ last_valid' = validation_result.is_valid
           /\ last_outcome' = Outcome("", db, "")
           /\ Ran("validate", SQLValidationPost(validation_result))
    /\ UNCHANGED <<use_debug, user_query, database_config, catalog, collection,
                   rag_context, debug_history, result, runs, executed_sql, probe>>

(***************************************************************************)
(* nodes.py, SQLDebugNode.                                                 *)
(***************************************************************************)
\* variant: a failed repair hands back the empty string, as Generation does
SQLDebugExec_EmptyOnFailure(validation_errors, current_sql, llm) ==
    IF llm = LLMFailure
    THEN [fixed_sql |-> <<>>,
          error_analysis |-> <<Msg("debug_failed", "", <<>>, <<>>)>>]
    ELSE [fixed_sql |-> CleanSql(llm), error_analysis |-> validation_errors]

SQLDebugExec(validation_errors, current_sql, llm) ==
    IF llm = LLMFailure
    THEN [fixed_sql |-> current_sql,
          error_analysis |-> <<Msg("debug_failed", "", <<>>, <<>>)>>]
    ELSE [fixed_sql |-> CleanSql(llm), error_analysis |-> validation_errors]

\* variant: iteration counted from the length before the append
DebugEntry_ZeroBased(history, current_sql, exec_res) ==
    [iteration |-> Len(history),
     sql |-> current_sql,
     error |-> JoinMessages(exec_res.error_analysis),
     fix_suggestion |-> exec_res.fixed_sql]

\* variant: sql taken after current_sql was rewritten
DebugEntry_SqlAfter(history, current_sql, exec_res) ==
    [iteration |-> Len(history) + 1,
     sql |-> exec_res.fixed_sql,
     error |-> JoinMessages(exec_res.error_analysis),
     fix_suggestion |-> exec_res.fixed_sql]

\* debug_entry, built before current_sql is rewritten
DebugEntry(history, current_sql, exec_res) ==
    [iteration |-> Len(history) + 1,
     sql |-> current_sql,
     error |-> JoinMessages(exec_res.error_analysis),
     fix_suggestion |-> exec_res.fixed_sql]

\* variant: only the entries of the last two repairs are kept
DebugAppend_KeepLastTwo(history, debug_entry) ==
    IF Len(history) < 2 THEN Append(history, debug_entry)
    ELSE <<history[Len(history)], debug_entry>>

\* shared["debug_history"].append(debug_entry)
DebugAppend(history, debug_entry) == Append(history, debug_entry)

\* variant: the cap compared with > instead of >=
SQLDebugPost_OffByOne(history) ==
    IF Len(history) > max_debug_iterations THEN "execute" ELSE "generate"

\* variant: the first repair is executed at once
SQLDebugPost_ExecuteAtOnce(history) ==
    IF Len(history) >= 1 THEN "execute" ELSE "generate"

\* the action post returns, from the length of the history after the append
SQLDebugPost(history) ==
    IF Len(history) >= max_debug_iterations THEN "execute" ELSE "generate"

SQLDebugNode ==
    /\ pc = "debug"
    /\ \E llm \in LLMResponses \cup {LLMFailure} :
        LET exec_res == SQLDebugExec(sql_generation.validation_errors,
                                     sql_generation.current_sql, llm)
            debug_entry == DebugEntry(debug_history, sql_generation.current_sql, exec_res)
        IN /\ debug_history' = DebugAppend(debug_history, debug_entry)
           /\ sql_generation' =
                [sql_generation EXCEPT !.keys = @ \cup {"current_sql"},
                                       !.current_sql = exec_res.fixed_sql]
           /\ last_outcome' = LLMOutcome(llm)
           /\ Ran("debug", SQLDebugPost(debug_history'))
    /\ UNCHANGED <<use_debug, user_query, database_config, catalog, collection,
                   rag_context, result, runs, last_valid, executed_sql, probe>>

(***************************************************************************)
(* nodes.py, SQLExecutionNode.                                             *)
(***************************************************************************)
SQLExecutionExec(current_sql, db) ==
    CASE db = "ok" ->
            [none |-> FALSE, success |-> TRUE, sql |-> current_sql, error |-> "", result |-> "rows"]
      [] db = "call_fails" ->
            [none |-> FALSE, success |-> FALSE, sql |-> current_sql, error |-> "sql_error",
             result |-> ""]
      [] OTHER ->
            [none |-> FALSE, success |-> FALSE, sql |-> current_sql, error |-> "connect_error",
             result |-> ""]

SQLExecutionPost(exec_res, history) ==
    IF exec_res.success THEN "default"
    ELSE IF Len(history) < ExecutionDebugLimit THEN "debug" ELSE "default"

SQLExecutionNode ==
    /\ pc = "execute"
    /\ \E db \in DBOutcomes :
        LET exec_res == SQLExecutionExec(sql_generation.current_sql, db)
        IN /\ sql_generation' =
                [sql_generation EXCEPT !.keys = @ \cup {"execution_result"},
                                       !.execution_result = exec_res]
           /\ executed_sql' = IF db = "connect_fails" THEN executed_sql
                              ELSE Append(executed_sql, sql_generation.current_sql)
           /\ last_outcome' = Outcome("", db, "")
           /\ Ran("execute", SQLExecutionPost(exec_res, debug_history))
    /\ UNCHANGED <<use_debug, user_query, database_config, catalog, collection,
                   rag_context, debug_history, result, runs, last_valid, probe>>

(***************************************************************************)
(* main.py, run_text_to_sql_query after flow.run: the result object.       *)
(***************************************************************************)
\* variant: a failed run reports no debug history
BuildResult_HistoryOnSuccess(query, sg, history) ==
    IF ~sg.execution_result.none /\ sg.execution_result.success
    THEN [none |-> FALSE, user_query |-> query, success |-> TRUE,
          sql |-> sg.execution_result.sql,
          result |-> sg.execution_result.result, errors |-> <<>>,
          debug_history |-> history]
    ELSE [none |-> FALSE, user_query |-> query, success |-> FALSE, sql |-> <<>>,
          result |-> "",
          errors |-> IF sg.execution_result.none THEN sg.validation_errors
                     ELSE Append(sg.validation_errors,
                                 Msg("execution", sg.execution_result.error, <<>>, <<>>)),
          debug_history |-> <<>>]

\* variant: a failed run reports the SQL that was executed
BuildResult_SqlOnFailure(query, sg, history) ==
    IF ~sg.execution_result.none /\ sg.execution_result.success
    THEN [none |-> FALSE, user_query |-> query, success |-> TRUE,
          sql |-> sg.execution_result.sql,
          result |-> sg.execution_result.result, errors |-> <<>>,
          debug_history |-> history]
    ELSE [none |-> FALSE, user_query |-> query, success |-> FALSE,
          sql |-> sg.execution_result.sql,
          result |-> "",
          errors |-> IF sg.execution_result.none THEN sg.validation_errors
                     ELSE Append(sg.validation_errors,
                                 Msg("execution", sg.execution_result.error, <<>>, <<>>)),
          debug_history |-> history]

BuildResult(query, sg, history) ==
    IF ~sg.execution_result.none /\ sg.execution_result.success
    THEN [none |-> FALSE, user_query |-> query, success |-> TRUE,
          sql |-> sg.execution_result.sql,
          result |-> sg.execution_result.result, errors |-> <<>>,
          debug_history |-> history]
    ELSE [none |-> FALSE, user_query |-> query, success |-> FALSE, sql |-> <<>>,
          result |-> "",
          errors |-> IF sg.execution_result.none THEN sg.validation_errors
                     ELSE Append(sg.validation_errors,
                                 Msg("execution", sg.execution_result.error, <<>>, <<>>)),
          debug_history |-> history]

\* the flow ended; result["errors"] is the list object held by the shared store
ReturnResult ==
    /\ pc = "flow_done"
    /\ result' = BuildResult(user_query, sql_generation, debug_history)
    /\ sql_generation' = [sql_generation EXCEPT !.validation_errors = result'.errors]
    /\ pc' = "returned"
    /\ UNCHANGED <<use_debug, user_query, database_config, catalog, collection,
                   rag_context, debug_history, runs, trace, last_action, last_valid,
                   executed_sql, last_outcome, probe>>

\* variant: the except branch lets the exception through to the caller
ReturnException_Reraise ==
    /\ pc = "raised"
    /\ pc' = "propagated"
    /\ UNCHANGED <<use_debug, user_query, database_config, catalog, collection,
                   rag_context, sql_generation, debug_history, result, runs, trace,
                   last_action, last_valid, executed_sql, last_outcome, probe>>

\* an exception left flow.run: the except branch
ReturnException ==
    /\ pc = "raised"
    /\ result' = [none |-> FALSE, user_query |-> user_query, success |-> FALSE,
                  sql |-> <<>>, result |-> "",
                  errors |-> <<Msg("exception", "", <<>>, <<>>)>>,
                  debug_history |-> <<>>]
    /\ pc' = "returned"
    /\ UNCHANGED <<use_debug, user_query, database_config, catalog, collection,
                   rag_context, sql_generation, debug_history, runs, trace, last_action,
                   last_valid, executed_sql, last_outcome, probe>>

Next ==
    \/ RunQuery
    \/ RAGRetrievalNode
    \/ SQLGenerationNode
    \/ SQLValidationNode
    \/ SQLDebugNode
    \/ SQLExecutionNode
    \/ ReturnResult
    \/ ReturnException

Spec == Init /\ [][Next]_vars

\* flow.run and the driver keep going until the function returns
FairSpec ==
    /\ Spec
    /\ WF_vars(RAGRetrievalNode)
    /\ WF_vars(SQLGenerationNode)
    /\ WF_vars(SQLValidationNode)
    /\ WF_vars(SQLDebugNode)
    /\ WF_vars(SQLExecutionNode)
    /\ WF_vars(ReturnResult)
    /\ WF_vars(ReturnException)

(***************************************************************************)
(* validate_sql called on its own: a validator is built on a catalog and   *)
(* one statement is validated.                                             *)
(***************************************************************************)
ValidatorInit ==
    /\ pc = "idle"
    /\ use_debug = TRUE
    /\ user_query = ""
    /\ database_config = ""
    /\ catalog \in UnitCatalogs
    /\ collection = <<>>
    /\ rag_context = EmptyRagContext
    /\ sql_generation = EmptySqlGeneration
    /\ debug_history = <<>>
    /\ result = NoResult
    /\ runs = 0
    /\ trace = <<>>
    /\ last_action = ""
    /\ last_valid = FALSE
    /\ executed_sql = <<>>
    /\ last_outcome = NoOutcome
    /\ probe \in [stage : {"input"}, sql : UnitSqls, db : DBOutcomes, compiles : BOOLEAN]

\* SQLValidationNode.exec on the statement of the probe
ValidateProbe ==
    /\ probe.stage = "input"
    /\ probe' = [stage |-> "validated", sql |-> probe.sql, db |-> probe.db,
                 compiles |-> probe.compiles,
                 schema_info |-> LoadSchema(probe.db),
                 calls |-> 1,
                 result |-> SQLValidationExec(probe.sql, probe.db, probe.compiles)]
    /\ UNCHANGED <<pc, use_debug, user_query, database_config, catalog, collection,
                   rag_context, sql_generation, debug_history, result, runs, trace,
                   last_action, last_valid, executed_sql, last_outcome>>

\* validate_sql called once more on the validator that was built, with the
\* same statement; the compilation may come out differently
RevalidateProbe ==
    /\ probe.stage = "validated"
    /\ probe.db # "connect_fails"
    /\ probe.calls < MaxCalls
    /\ \E compiles \in BOOLEAN :
        probe' = [probe EXCEPT !.compiles = compiles,
                               !.calls = @ + 1,
                               !.result = ValidationResults[probe.schema_info][probe.sql][compiles]]
    /\ UNCHANGED <<pc, use_debug, user_query, database_config, catalog, collection,
                   rag_context, sql_generation, debug_history, result, runs, trace,
                   last_action, last_valid, executed_sql, last_outcome>>

ValidatorNext ==
    \/ ValidateProbe
    \/ RevalidateProbe

ValidatorSpec == ValidatorInit /\ [][ValidatorNext]_vars

(***************************************************************************)
(* db/milvus.py: batch_insert_schemas and insert_table_schema, called on   *)
(* their own.                                                              *)
(***************************************************************************)
\* table_info dicts: the keys present, and whether every column has name and type
MilvusTableInfos ==
    { [keys |-> {"table_name", "columns"}, table_name |-> "users", columns_ok |-> TRUE],
      [keys |-> {"table_name", "columns"}, table_name |-> "orders", columns_ok |-> TRUE],
      [keys |-> {"table_name"}, table_name |-> "invalid_table", columns_ok |-> TRUE],
      [keys |-> {"columns"}, table_name |-> "", columns_ok |-> TRUE],
      [keys |-> {"table_name", "columns"}, table_name |-> "users", columns_ok |-> FALSE] }

\* the values of the dict schemas, in the order of its items()
BatchInputs == UNION {[1..n -> MilvusTableInfos] : n \in 0..MaxBatch}

CollaboratorOutcomes == {"ok", "fails"}

\* the try block of insert_table_schema: a missing key, a failed embedding or a
\* failed insert raises; otherwise one row goes to the collection
InsertBody(table_info, embedding, insert) ==
    IF \/ ~({"table_name", "columns"} \subseteq table_info.keys)
       \/ ~table_info.columns_ok
       \/ embedding = "fails"
       \/ insert = "fails"
    THEN [raises |-> TRUE, rows |-> <<>>]
    ELSE [raises |-> FALSE,
          rows |-> <<[id |-> table_info.table_name, vector |-> table_info.table_name]>>]

\* the except branch turns every exception into the return value False
insert_table_schema(table_info, embedding, insert) ==
    LET body == InsertBody(table_info, embedding, insert)
    IN [raised |-> FALSE, value |-> ~body.raises, rows |-> body.rows]

\* variant: one success is enough
BatchResult_AnySuccess(success_count, total_count) == success_count > 0

\* return success_count == total_count
BatchResult(success_count, total_count) == success_count = total_count

MilvusInit ==
    /\ pc = "idle"
    /\ use_debug = TRUE
    /\ user_query = ""
    /\ database_config = ""
    /\ catalog = <<>>
    /\ collection = <<>>
    /\ rag_context = EmptyRagContext
    /\ sql_generation = EmptySqlGeneration
    /\ debug_history = <<>>
    /\ result = NoResult
    /\ runs = 0
    /\ trace = <<>>
    /\ last_action = ""
    /\ last_valid = FALSE
    /\ executed_sql = <<>>
    /\ last_outcome = NoOutcome
    /\ probe \in [stage : {"batch_input"}, schemas : BatchInputs]

\* batch_insert_schemas up to the loop: create_collection swallows its failure
BatchStart ==
    /\ probe.stage = "batch_input"
    /\ \E create \in CollaboratorOutcomes :
        probe' = [stage |-> "batch_loop", schemas |-> probe.schemas, create |-> create,
                  attempts |-> <<>>, returns |-> <<>>, raised |-> FALSE,
                  success_count |-> 0, result |-> FALSE]
    /\ UNCHANGED <<pc, use_debug, user_query, database_config, catalog, collection,
                   rag_context, sql_generation, debug_history, result, runs, trace,
                   last_action, last_valid, executed_sql, last_outcome>>

\* one turn of the loop: insert_table_schema on the next table_info
BatchInsert ==
    /\ probe.stage = "batch_loop"
    /\ Len(probe.returns) < Len(probe.schemas)
    /\ \E embedding \in CollaboratorOutcomes, insert \in CollaboratorOutcomes :
        LET table_info == probe.schemas[Len(probe.returns) + 1]
            r == insert_table_schema(table_info, embedding, insert)
        IN IF r.raised
           THEN /\ probe' = [probe EXCEPT !.stage = "batch_done", !.raised = TRUE,
                                          !.result = FALSE]
                /\ UNCHANGED collection
           ELSE /\ probe' = [probe EXCEPT
                                !.attempts = Append(@, [embedding |-> embedding,
                                                        insert |-> insert]),
                                !.returns = Append(@, r.value),
                                !.success_count = IF r.value THEN @ + 1 ELSE @]
                /\ collection' = collection \o r.rows
    /\ UNCHANGED <<pc, use_debug, user_query, database_config, catalog, rag_context,
                   sql_generation, debug_history, result, runs, trace, last_action,
                   last_valid, executed_sql, last_outcome>>

\* the loop is over
BatchReturn ==
    /\ probe.stage = "batch_loop"
    /\ Len(probe.returns) = Len(probe.schemas)
    /\ probe' = [probe EXCEPT !.stage = "batch_done",
                              !.result = BatchResult(probe.success_count, Len(probe.schemas))]
    /\ UNCHANGED <<pc, use_debug, user_query, database_config, catalog, collection,
                   rag_context, sql_generation, debug_history, result, runs, trace,
                   last_action, last_valid, executed_sql, last_outcome>>

MilvusNext ==
    \/ BatchStart
    \/ BatchInsert
    \/ BatchReturn

MilvusSpec == MilvusInit /\ [][MilvusNext]_vars

(***************************************************************************)
(* Properties.                                                             *)
(***************************************************************************)
\* C1: in the debug-enabled flow the Debug stage runs at most 3 times and
\* debug_history never holds more than 3 entries, whatever the collaborators do.
C1_DebugBudget ==
    use_debug => Count("debug") <= 3 /\ Len(debug_history) <= 3 /\ Len(debug_history) = Count("debug")

C1_Witness ==
    use_debug /\ Count("debug") = 3 /\ Len(debug_history) = 3 /\ pc = "execute"

\* C2: every started run of the debug-enabled flow ends with run_text_to_sql_query
\* having returned a result object.
C2_Terminates ==
    (pc = "rag" /\ use_debug) ~> (pc = "returned" /\ ~result.none)

\* every collaborator call of the run failed and the run still returned
C2_Witness ==
    /\ pc = "returned" /\ use_debug /\ ~result.none /\ ~result.success
    /\ Len(result.debug_history) = 3
    /\ \A k \in 1..3 : result.debug_history[k].error.joined[1].kind = "debug_failed"

\* C3: right after Validation the flow is at Execution when the validation result
\* is valid and at Debug when it is not; there is no other successor.
C3_ValidationBranch ==
    (use_debug /\ LastNode = "validate") =>
        /\ last_valid => pc = "execute"
        /\ ~last_valid => pc = "debug"
        /\ last_valid <=> last_action = "execute"

C3_Witness ==
    use_debug /\ LastNode = "validate" /\ ~last_valid /\ pc = "debug"
    /\ sql_generation.validation_errors # <<>>

\* C4: right after Debug has appended its entry the flow is at Generation when
\* the history is shorter than 3 and at Execution when it has reached 3; the
\* history is then exactly 3 long.
C4_DebugBranch ==
    (use_debug /\ LastNode = "debug") =>
        /\ Len(debug_history) < 3 => pc = "generate"
        /\ Len(debug_history) >= 3 => pc = "execute" /\ Len(debug_history) = 3

C4_Witness ==
    /\ use_debug /\ LastNode = "debug" /\ pc = "execute" /\ Len(debug_history) = 3
    /\ Count("validate") = 3 /\ Count("execute") = 0

\* C5: when Execution runs after the third Debug, no Validation or Generation
\* ran in between and the SQL it runs is the fix_suggestion of the third entry.
C5_ForcedExecution ==
    (use_debug /\ Len(debug_history) >= 3) =>
        /\ pc = "execute" =>
             /\ LastNode = "debug"
             /\ sql_generation.current_sql = debug_history[3].fix_suggestion
        /\ Count("execute") > 0 =>
             /\ LastNode = "execute"
             /\ trace[Len(trace) - 1] = "debug"
             /\ sql_generation.execution_result.sql = debug_history[3].fix_suggestion
             /\ \A k \in DOMAIN executed_sql : executed_sql[k] = debug_history[3].fix_suggestion

C5_Witness ==
    /\ use_debug /\ Len(debug_history) = 3 /\ LastNode = "execute"
    /\ executed_sql = <<debug_history[3].fix_suggestion>>
    /\ debug_history[3].fix_suggestion # debug_history[3].sql

\* C6: right after Execution the flow is at Debug exactly when execution failed
\* with fewer than 3 history entries, and has ended exactly when execution
\* succeeded or failed with 3 entries.
C6_ExecutionBranch ==
    (use_debug /\ LastNode = "execute" /\ pc # "returned") =>
        /\ pc = "debug" <=>
             (~sql_generation.execution_result.success /\ Len(debug_history) < 3)
        /\ pc = "flow_done" <=>
             (sql_generation.execution_result.success \/ Len(debug_history) >= 3)

\* C7: one run invokes Generation, Debug and Execution at most 8 times in total.
C7_StageBound ==
    Count("generate") + Count("debug") + Count("execute") <= 8

C7_Witness ==
    /\ pc = "returned" /\ use_debug
    /\ Count("generate") = 3 /\ Count("debug") = 3 /\ Count("execute") = 1

ControlPoints ==
    {"idle", "rag", "generate", "validate", "debug", "execute", "flow_done", "raised",
     "returned"}

ResultKeys == {"user_query", "success", "sql", "result", "errors", "debug_history"}

\* C8: run_text_to_sql_query never lets an exception out: control stays inside
\* the function until it returns, and what it returns is a result object with
\* the six keys, also after an exception inside the flow.
C8_NeverRaises ==
    /\ pc \in ControlPoints
    /\ pc = "returned" =>
         /\ ~result.none
         /\ ResultKeys \subseteq DOMAIN result
         /\ result.user_query = user_query
         /\ result.success \in BOOLEAN

C8_Witness ==
    /\ pc = "returned" /\ trace = <<"rag">>
    /\ ~result.none /\ ~result.success
    /\ result.errors = <<Msg("exception", "", <<>>, <<>>)>>

\* C9: no stage lets an exception escape to the flow runner.
C9_NoEscape ==
    pc # "raised"

ValidationKinds ==
    {"syntax", "no_table", "table_candidates", "no_column", "column_candidates",
     "validation_failed"}

\* C10: the returned result has success exactly when Execution succeeded, and a
\* failed result carries a non-empty errors list made of the last validation
\* errors and the execution error.
C10_ResultErrors ==
    pc = "returned" =>
        /\ result.success <=>
             (~sql_generation.execution_result.none /\ sql_generation.execution_result.success)
        /\ ~result.success =>
             /\ result.errors # <<>>
             /\ \A k \in DOMAIN result.errors :
                  \/ result.errors[k].kind \in ValidationKinds
                  \/ /\ result.errors[k].kind = "execution"
                     /\ ~sql_generation.execution_result.none
                     /\ result.errors[k].table = sql_generation.execution_result.error

\* the stage cap of the model is never the reason a run stops
CapNotReached ==
    pc \in {"rag", "generate", "validate", "debug", "execute"} => Len(trace) < MaxStages - 1

\* C11: when the LLM call of Generation fails, the following Validation reports
\* is_valid = FALSE and the run goes to Debug; Validation never hands an empty
\* SQL on to Execution.
C11_EmptySqlFailsValidation ==
    [][/\ (use_debug /\ pc = "validate" /\ LastNode = "generate"
             /\ last_outcome.llm = "failed") => (~last_valid' /\ pc' = "debug")
       /\ (pc = "validate" /\ sql_generation.current_sql = <<>>) => pc' # "execute"]_vars

\* C12: every Generation invocation writes current_sql, the empty string when the
\* LLM call failed, raises nothing and is followed by Validation.
C12_GenerationThenValidation ==
    LastNode = "generate" =>
        /\ "current_sql" \in sql_generation.keys
        /\ last_outcome.llm = "failed" => sql_generation.current_sql = <<>>
        /\ pc = "validate"

\* C12 as amended: ... and is followed by Validation in the debug-enabled flow,
\* by Execution in the simplified flow.
C12_GenerationWrites ==
    LastNode = "generate" =>
        /\ "current_sql" \in sql_generation.keys
        /\ sql_generation.current_sql \in SqlTexts
        /\ last_outcome.llm = "failed" => sql_generation.current_sql = <<>>
        /\ pc = (IF use_debug THEN "validate" ELSE "execute")

C12_Witness ==
    /\ use_debug /\ LastNode = "generate" /\ Count("generate") = 2
    /\ last_outcome.llm = "failed" /\ sql_generation.current_sql = <<>>
    /\ debug_history[1].fix_suggestion # <<>>
    /\ pc = "validate"

\* C13: a Debug invocation whose LLM call fails leaves current_sql as it was,
\* records it as fix_suggestion together with the synthetic error analysis, and
\* still appends one entry to debug_history.
C13_DebugFailureUsesBudget ==
    [][(pc = "debug" /\ last_outcome'.llm = "failed") =>
          /\ sql_generation'.current_sql = sql_generation.current_sql
          /\ Len(debug_history') = Len(debug_history) + 1
          /\ SubSeq(debug_history', 1, Len(debug_history)) = debug_history
          /\ LET e == debug_history'[Len(debug_history')]
             IN /\ e.fix_suggestion = sql_generation.current_sql
                /\ e.sql = sql_generation.current_sql
                /\ e.error = JoinMessages(<<Msg("debug_failed", "", <<>>, <<>>)>>)]_vars

C13_Witness ==
    /\ LastNode = "debug" /\ last_outcome.llm = "failed"
    /\ Len(debug_history) = 2
    /\ sql_generation.current_sql # <<>>
    /\ debug_history[2].fix_suggestion = sql_generation.current_sql
    /\ debug_history[2].sql = sql_generation.current_sql

\* the rag_context that the catalog fallback produces: one entry per catalog
\* table, every score 0.5, three arrays of the catalog's length
IsCatalogFallback ==
    /\ rag_context.populated
    /\ Len(rag_context.table_info) = Len(catalog)
    /\ Len(rag_context.similarity_scores) = Len(catalog)
    /\ Len(rag_context.descriptions) = Len(catalog)
    /\ \A k \in 1..Len(catalog) :
        /\ rag_context.table_info[k] = catalog[k]
        /\ rag_context.similarity_scores[k] = DefaultSimilarity
        /\ rag_context.descriptions[k] = catalog[k].table_name

\* C14: when the search returns an empty sequence, Retrieval fills rag_context
\* with one entry per catalog table, every score 0.5, the three arrays of equal
\* length.
C14_EmptyRetrievalFallsBack ==
    (LastNode = "rag" /\ last_outcome.milvus = "empty") => IsCatalogFallback

\* C14 as amended: ... provided the catalog can be read from MySQL; when it cannot,
\* the three arrays of rag_context are left empty.
C14_FallbackWhenCatalogRead ==
    (LastNode = "rag" /\ last_outcome.milvus = "empty") =>
        IF last_outcome.db = "ok"
        THEN IsCatalogFallback
        ELSE /\ rag_context.populated
             /\ rag_context.table_info = <<>>
             /\ rag_context.similarity_scores = <<>>
             /\ rag_context.descriptions = <<>>

C14_Witness ==
    /\ LastNode = "rag" /\ last_outcome = Outcome("empty", "ok", "")
    /\ Len(catalog) = 2
    /\ Len(rag_context.table_info) = 2
    /\ rag_context.similarity_scores = <<DefaultSimilarity, DefaultSimilarity>>
    /\ Len(rag_context.descriptions) = 2

\* C15: whenever the retrieval collaborator fails, at client construction or at
\* search time, and MySQL can be read, rag_context ends up holding every catalog
\* table with score 0.5.
C15_RetrievalFailureFallsBack ==
    (/\ LastNode = "rag"
     /\ \/ last_outcome.milvus = "raises"
        \/ last_outcome.milvus = "search_fails" /\ last_outcome.db = "ok")
        => IsCatalogFallback

\* C16: when get_table_schema raises while the validator is built, Validation
\* yields is_valid = FALSE with a non-empty error list for every SQL, and the run
\* goes to Debug, never to Execution.
C16_IntrospectionFailureInvalid ==
    (use_debug /\ LastNode = "validate" /\ last_outcome.db = "call_fails") =>
        /\ ~last_valid
        /\ sql_generation.validation_errors # <<>>
        /\ pc = "debug"

\* C17: the result of validate_sql has is_valid = FALSE exactly when its errors
\* list is non-empty, whatever its warnings and suggestions hold.
C17_InvalidIffErrors ==
    probe.stage = "validated" =>
        (~probe.result.is_valid <=> probe.result.errors # <<>>)

C17_Witness ==
    /\ probe.stage = "validated" /\ probe.db = "ok"
    /\ probe.result.is_valid /\ probe.result.errors = <<>>
    /\ probe.result.warnings # <<>> /\ probe.result.suggestions # <<>>

\* C18: a statement that fails to compile in the syntax check gets a syntax-error
\* message in errors and is_valid = FALSE.
C18_CompileFailureReported ==
    (probe.stage = "validated" /\ probe.db # "connect_fails" /\ ~probe.compiles) =>
        /\ ~probe.result.is_valid
        /\ \E k \in DOMAIN probe.result.errors : probe.result.errors[k].kind = "syntax"

\* the identifiers that follow FROM, JOIN, UPDATE, DELETE FROM or INSERT INTO
C19_Following(sql) ==
    {sql[m + 1] : m \in {k \in 1..(Len(sql) - 1) :
        /\ IsWord(sql[k + 1])
        /\ \/ Upper(sql[k]) \in {"FROM", "JOIN", "UPDATE"}
           \/ k > 1 /\ Upper(sql[k - 1]) = "DELETE" /\ Upper(sql[k]) = "FROM"
           \/ k > 1 /\ Upper(sql[k - 1]) = "INSERT" /\ Upper(sql[k]) = "INTO"}}

\* C19: with a non-empty catalog, every identifier after FROM, JOIN, UPDATE,
\* DELETE FROM or INSERT INTO that is not a catalog table is named in an error and
\* is_valid is FALSE; a candidate list follows the error of its missing name, holds
\* only catalog tables that contain or are contained in that name, ignoring case,
\* and holds at most 3 of them.
C19_MissingTablesReported ==
    (probe.stage = "validated" /\ probe.db = "ok" /\ catalog # <<>>) =>
        LET errors == probe.result.errors
        IN /\ \A t \in C19_Following(probe.sql) \ SchemaTables(catalog) :
                /\ ~probe.result.is_valid
                /\ \E k \in DOMAIN errors : errors[k] = Msg("no_table", t, <<>>, <<>>)
           /\ \A k \in DOMAIN errors :
                errors[k].kind = "table_candidates" =>
                    /\ k > 1 /\ errors[k - 1].kind = "no_table"
                    /\ Len(errors[k].names) <= 3
                    /\ \A n \in DOMAIN errors[k].names :
                        /\ errors[k].names[n] \in SchemaTables(catalog)
                        /\ \/ IsSubstring(Lower(errors[k].names[n]), Lower(errors[k - 1].table))
                           \/ IsSubstring(Lower(errors[k - 1].table), Lower(errors[k].names[n]))

C19_Witness ==
    /\ probe.stage = "validated" /\ probe.db = "ok" /\ Len(catalog) = 4
    /\ probe.sql = <<"update", "ord", "SET", "id">>
    /\ ~probe.result.is_valid
    /\ Len(probe.result.errors) = 2
    /\ probe.result.errors[1] = Msg("no_table", "ord", <<>>, <<>>)
    /\ probe.result.errors[2].kind = "table_candidates"
    /\ Len(probe.result.errors[2].names) = 3

\* catalog {customers} and the statement SELECT * FROM custmers, validated
C20_Case ==
    /\ probe.stage = "validated" /\ probe.db = "ok"
    /\ catalog = <<[table_name |-> "customers", columns |-> <<"id", "name">>]>>
    /\ probe.sql = <<"SELECT", "*", "FROM", "custmers">>

\* C20: with catalog {customers}, SELECT * FROM custmers is invalid with an error
\* naming custmers and a table-name suggestion that contains customers.
C20_SuggestsCustomers ==
    C20_Case =>
        /\ ~probe.result.is_valid
        /\ \E k \in DOMAIN probe.result.errors :
            probe.result.errors[k] = Msg("no_table", "custmers", <<>>, <<>>)
        /\ \/ \E k \in DOMAIN probe.result.errors :
                /\ probe.result.errors[k].kind = "table_candidates"
                /\ \E n \in DOMAIN probe.result.errors[k].names :
                    probe.result.errors[k].names[n] = "customers"
           \/ \E k \in DOMAIN probe.result.suggestions :
                probe.result.suggestions[k] = "customers"

\* C20 as amended: ... is invalid with an error naming custmers and without any
\* table-name candidate, neither name being contained in the other.
C20_NoCandidate ==
    C20_Case =>
        /\ ~probe.result.is_valid
        /\ \E k \in DOMAIN probe.result.errors :
            probe.result.errors[k] = Msg("no_table", "custmers", <<>>, <<>>)
        /\ \A k \in DOMAIN probe.result.errors :
            probe.result.errors[k].kind # "table_candidates"
        /\ \A k \in DOMAIN probe.result.suggestions :
            probe.result.suggestions[k] # "customers"

C20_Witness ==
    /\ C20_Case
    /\ ~probe.result.is_valid
    /\ probe.result.errors = <<Msg("no_table", "custmers", <<>>, <<>>)>>
    /\ ~IsSubstring(Lower("custmers"), Lower("customers"))
    /\ ~IsSubstring(Lower("customers"), Lower("custmers"))

C22_Contains(sql, chars) ==
    LET text == SqlUpper(sql)
    IN \E i \in 1..Len(text) : \E j \in i..Len(text) : SubSeq(text, i, j) = chars

C22_HasAdvice(advices, advice) == \E k \in DOMAIN advices : advices[k] = advice

\* C22: validate_sql warns of a missing WHERE exactly when the statement contains
\* SELECT and no WHERE, suggests LIMIT exactly when it contains SELECT and no
\* LIMIT, suggests ORDER BY exactly when it contains SELECT and no ORDER BY, and
\* warns of a missing ON exactly when it contains JOIN and no ON, each test being a
\* substring test on the upper-cased statement.
C22_Advisories ==
    (probe.stage = "validated" /\ probe.db # "connect_fails") =>
        LET sql == probe.sql
            select == C22_Contains(sql, <<"S", "E", "L", "E", "C", "T">>)
        IN /\ C22_HasAdvice(probe.result.warnings, "no_where")
                <=> (select /\ ~C22_Contains(sql, <<"W", "H", "E", "R", "E">>))
           /\ C22_HasAdvice(probe.result.suggestions, "add_limit")
                <=> (select /\ ~C22_Contains(sql, <<"L", "I", "M", "I", "T">>))
           /\ C22_HasAdvice(probe.result.suggestions, "add_order_by")
                <=> (select /\ ~C22_Contains(sql, <<"O", "R", "D", "E", "R", " ", "B", "Y">>))
           /\ C22_HasAdvice(probe.result.warnings, "join_without_on")
                <=> (C22_Contains(sql, <<"J", "O", "I", "N">>) /\ ~C22_Contains(sql, <<"O", "N">>))

\* SELECT * FROM users
C22_Witness ==
    /\ probe.stage = "validated" /\ probe.db = "ok"
    /\ probe.sql = <<"SELECT", "*", "FROM", "users">>
    /\ probe.result.warnings = <<"no_where">>
    /\ probe.result.suggestions = <<"add_limit", "add_order_by">>

StageControlPoints == {"rag", "generate", "validate", "debug", "execute"}

\* C24: a Debug invocation appends exactly one entry to debug_history and leaves
\* the entries before it as they were; no other stage, and no step of the driver
\* within the run, changes debug_history.
C24_AppendOnly ==
    [][/\ pc = "debug" =>
            /\ Len(debug_history') = Len(debug_history) + 1
            /\ SubSeq(debug_history', 1, Len(debug_history)) = debug_history
       /\ pc \in (StageControlPoints \ {"debug"}) \cup {"flow_done", "raised"} =>
            debug_history' = debug_history]_vars

C24_Witness ==
    /\ pc = "flow_done" /\ LastNode = "execute"
    /\ Len(debug_history) = 3
    /\ Count("debug") = 3 /\ Count("generate") = 3

\* C26: after a Debug invocation that leaves fewer than 3 entries, the SQL that
\* the next Validation invocation examines is the fix_suggestion that this Debug
\* invocation wrote to current_sql.
C26_RepairRevalidated ==
    (use_debug /\ pc = "validate" /\ Len(debug_history) \in 1..2) =>
        sql_generation.current_sql = debug_history[Len(debug_history)].fix_suggestion

\* C27: a Generation invocation that finds initial_sql already written leaves it
\* unchanged.
C27_InitialSqlKept ==
    [][(pc = "generate" /\ "initial_sql" \in sql_generation.keys) =>
          sql_generation'.initial_sql = sql_generation.initial_sql]_vars

\* C28: the i-th entry of debug_history has iteration = i, in the shared store
\* and in the returned result.
C28_Iterations ==
    /\ \A i \in DOMAIN debug_history : debug_history[i].iteration = i
    /\ \A i \in DOMAIN result.debug_history : result.debug_history[i].iteration = i

C28_Witness ==
    /\ Len(debug_history) = 3
    /\ <<debug_history[1].iteration, debug_history[2].iteration, debug_history[3].iteration>>
        = <<1, 2, 3>>
    /\ pc = "returned" /\ Len(result.debug_history) = 3

\* C29: the entry appended by Debug has sql = current_sql before the repair,
\* fix_suggestion = the repaired SQL, error = the current validation errors joined;
\* right after Debug current_sql = the entry's fix_suggestion.
C29_EntryFields ==
    [][pc = "debug" =>
          LET e == debug_history'[Len(debug_history')]
          IN /\ e.sql = sql_generation.current_sql
             /\ e.fix_suggestion = sql_generation'.current_sql
             /\ e.error = JoinMessages(sql_generation.validation_errors)]_vars

\* C29 as amended: ... error = the current validation errors joined, or the
\* synthetic message of the failure when the LLM call of this invocation failed.
C29_EntryFieldsByOutcome ==
    [][pc = "debug" =>
          LET e == debug_history'[Len(debug_history')]
          IN /\ e.sql = sql_generation.current_sql
             /\ e.fix_suggestion = sql_generation'.current_sql
             /\ last_outcome'.llm = "failed" =>
                    /\ e.error = JoinMessages(<<Msg("debug_failed", "", <<>>, <<>>)>>)
                    /\ e.fix_suggestion = sql_generation.current_sql
             /\ last_outcome'.llm # "failed" =>
                    /\ e.error = JoinMessages(sql_generation.validation_errors)
                    /\ e.fix_suggestion \in SqlTexts]_vars

C29_Witness ==
    /\ LastNode = "debug" /\ last_outcome.llm = "ok"
    /\ LET e == debug_history[Len(debug_history)]
       IN /\ e.sql # e.fix_suggestion
          /\ e.sql = <<"SELECT", "nam", "FROM", "users">>
          /\ e.fix_suggestion = sql_generation.current_sql
          /\ sql_generation.validation_errors # <<>>
          /\ e.error = JoinMessages(sql_generation.validation_errors)

\* C30: Generation, Validation, Debug and Execution leave rag_context as
\* Retrieval wrote it; no stage changes user_query or database_config.
C30_ReadOnly ==
    [][/\ pc \in StageControlPoints \ {"rag"} => rag_context' = rag_context
       /\ pc \in StageControlPoints =>
            /\ user_query' = user_query
            /\ database_config' = database_config]_vars

C30_Witness ==
    /\ pc = "flow_done" /\ LastNode = "execute" /\ Count("debug") = 3
    /\ rag_context.populated /\ Len(rag_context.table_info) = 2
    /\ user_query = "q2" /\ database_config = "remote"

\* C25: insert_table_schema never raises; it returns True exactly when the table
\* info has its fields and both the embedding and the insert worked, and a call
\* that returns False adds no row; batch_insert_schemas returns True only if
\* every insert returned True.
C25_InsertNeverRaises ==
    probe.stage \in {"batch_loop", "batch_done"} =>
        /\ ~probe.raised
        /\ Len(probe.attempts) = Len(probe.returns)
        /\ \A i \in DOMAIN probe.returns :
            probe.returns[i] <=>
                /\ {"table_name", "columns"} \subseteq probe.schemas[i].keys
                /\ probe.schemas[i].columns_ok
                /\ probe.attempts[i].embedding = "ok"
                /\ probe.attempts[i].insert = "ok"
        /\ Len(collection) = Cardinality({i \in DOMAIN probe.returns : probe.returns[i]})
        /\ (probe.stage = "batch_done" /\ probe.result) =>
                /\ Len(probe.returns) = Len(probe.schemas)
                /\ \A i \in DOMAIN probe.returns : probe.returns[i]

C25_Witness ==
    /\ probe.stage = "batch_done"
    /\ Len(probe.schemas) = 2
    /\ probe.schemas[2].keys = {"table_name"}
    /\ probe.returns = <<TRUE, FALSE>>
    /\ ~probe.result
    /\ Len(collection) = 1

\* C31: every call of run_text_to_sql_query starts with an empty debug_history,
\* sql_generation and rag_context, whatever the call before it left behind; the
\* history of a run holds the entries of this run's Debug invocations only, so
\* each run can debug 3 times.
C31_FreshState ==
    [][/\ runs' = runs + 1 =>
            /\ debug_history' = <<>>
            /\ sql_generation' = EmptySqlGeneration
            /\ rag_context' = EmptyRagContext
            /\ pc' = "rag"
       /\ Len(debug_history') = Cardinality({i \in DOMAIN trace' : trace'[i] = "debug"})
       /\ (pc' = "debug" /\ use_debug') => Len(debug_history') < 3]_vars

\* the second call used its three debug iterations
C31_Witness ==
    /\ runs = 2 /\ use_debug /\ pc = "returned"
    /\ Count("debug") = 3 /\ Len(debug_history) = 3
    /\ Len(result.debug_history) = 3

\* C32: in the columns extracted from a SELECT list an AS alias is cut off
\* whatever the case of AS, and a table qualifier is cut off, before the column is
\* looked up in the catalog: every extracted column, and every column named in an
\* error, is a bare name.
C32_AliasStripped ==
    (probe.stage = "validated" /\ probe.db = "ok") =>
        LET mapping == ExtractColumnNames(probe.sql)
            errors == probe.result.errors
        IN /\ \A m \in DOMAIN mapping : \A c \in DOMAIN mapping[m].columns :
                LET col == mapping[m].columns[c]
                IN /\ Len(col) = 1
                   /\ \A k \in DOMAIN col : Upper(col[k]) # "AS" /\ col[k] # "."
           /\ \A k \in DOMAIN errors :
                errors[k].kind = "no_column" => Len(errors[k].column) = 1

\* every match of SELECT <cols> FROM <table> in the statement, in order, each
\* with its own column list
RECURSIVE C33_Matches(_, _)
C33_Matches(sql, start) ==
    LET starts == {i \in start..Len(sql) : Upper(sql[i]) = "SELECT" /\ FromOf(sql, i) # {}}
    IN IF starts = {} THEN <<>>
       ELSE LET i == Min(starts)
                j == Min(FromOf(sql, i))
            IN <<[table |-> sql[j + 1], columns |-> ColumnsOf(SubSeq(sql, i + 1, j - 1))]>>
               \o C33_Matches(sql, j + 2)

\* C33: every column of every SELECT ... FROM match whose table is in the catalog
\* and which is not a column of that table is named in an error, also when
\* several matches name the same table.
C33_EveryMatchChecked ==
    (probe.stage = "validated" /\ probe.db = "ok" /\ catalog # <<>>) =>
        LET matches == C33_Matches(probe.sql, 1)
            errors == probe.result.errors
        IN \A m \in DOMAIN matches :
            matches[m].table \in SchemaTables(catalog) =>
                \A c \in DOMAIN matches[m].columns :
                    LET col == matches[m].columns[c]
                    IN ~(Len(col) = 1 /\ col[1] \in TableColumns(catalog, matches[m].table)) =>
                          /\ ~probe.result.is_valid
                          /\ \E k \in DOMAIN errors :
                                errors[k] = Msg("no_column", matches[m].table, col, <<>>)

\* C37: SELECT * FROM t on a table t of the catalog is valid and has no errors.
C37_WildcardValid ==
    (/\ probe.stage = "validated" /\ probe.db = "ok" /\ probe.compiles
     /\ Len(probe.sql) = 4
     /\ probe.sql[1] = "SELECT" /\ probe.sql[2] = "*" /\ probe.sql[3] = "FROM"
     /\ probe.sql[4] \in SchemaTables(catalog)) =>
        /\ probe.result.is_valid
        /\ probe.result.errors = <<>>

\* C34: the result returned by a run in which Debug was invoked holds, as
\* debug_history, every entry Debug appended during the run, in order, whether
\* the run succeeded or failed.
C34_HistoryReturned ==
    (pc = "returned" /\ Count("debug") >= 1) =>
        /\ result.debug_history = debug_history
        /\ Len(result.debug_history) = Count("debug")
        /\ \A i \in DOMAIN result.debug_history : result.debug_history[i].iteration = i

\* a run repaired twice and then succeeded
C34_Witness ==
    /\ pc = "returned" /\ result.success
    /\ Count("debug") = 2
    /\ Len(result.debug_history) = 2
    /\ result.debug_history = debug_history

\* the run is over and no exception left the flow
C35_EndedNormally ==
    \/ pc = "flow_done"
    \/ /\ pc = "returned"
       /\ \A k \in DOMAIN result.errors : result.errors[k].kind # "exception"

C36_ExecutedSqlVetted ==
    [][/\ (use_debug /\ pc = "execute") =>
            /\ sql_generation'.execution_result.sql = sql_generation.current_sql
            /\ executed_sql' \in {executed_sql,
                                  Append(executed_sql, sql_generation.current_sql)}
            /\ \/ /\ LastNode = "validate" /\ last_valid
                  /\ \E compiles \in BOOLEAN :
                        SQLValidationExec(sql_generation.current_sql, last_outcome.db,
                                          compiles).is_valid
               \/ /\ LastNode = "debug" /\ Len(debug_history) = 3
                  /\ sql_generation.current_sql = debug_history[3].fix_suggestion
       /\ (use_debug /\ pc = "validate") =>
            sql_generation'.current_sql = sql_generation.current_sql]_vars

\* a repaired run whose regenerated statement passed Validation and was executed
C36_Witness ==
    /\ use_debug /\ LastNode = "execute" /\ trace[Len(trace) - 1] = "validate"
    /\ last_valid /\ Len(debug_history) = 1
    /\ executed_sql = <<sql_generation.current_sql>>
    /\ sql_generation.current_sql # <<>>

\* C38: a returned result with success holds as sql the statement Execution ran,
\* as result its rows, and no errors; a returned result without success holds the
\* empty sql and no result, also when a statement was generated and executed.
C38_ResultFields ==
    pc = "returned" =>
        IF result.success
        THEN /\ executed_sql # <<>>
             /\ result.sql = executed_sql[Len(executed_sql)]
             /\ result.sql = sql_generation.execution_result.sql
             /\ result.result = sql_generation.execution_result.result
             /\ result.result = "rows"
             /\ result.errors = <<>>
        ELSE /\ result.sql = <<>>
             /\ result.result = ""

\* a statement was generated and executed, the execution failed
C38_Witness ==
    /\ pc = "returned" /\ ~result.success
    /\ executed_sql # <<>> /\ executed_sql[1] # <<>>
    /\ sql_generation.execution_result.sql = executed_sql[1]
    /\ result.sql = <<>> /\ result.result = ""

\* C39: a run of the simplified flow is Retrieval, Generation, Execution and
\* then the end: no Validation, no Debug, an empty debug_history, and a failed
\* execution ends the run.
C39_SimpleRun ==
    ~use_debug =>
        /\ trace \in {<<>>, <<"rag">>, <<"rag", "generate">>, <<"rag", "generate", "execute">>}
        /\ debug_history = <<>>
        /\ LastNode = "execute" => pc \in {"flow_done", "returned"}
        /\ pc \in {"flow_done", "returned"} => trace = <<"rag", "generate", "execute">>

====
